---- MODULE Spec2Model ----
(************************************************************************** *)
(* Global progressive tax calculator (streamlit_app.py).                    *)
(*                                                                          *)
(* The three core functions global_tax_calculator, create_tax_function      *)
(* and calculate_personal_outcome, and the script that reruns them on       *)
(* every widget change.                                                     *)
(*                                                                          *)
(* Numbers.  The solver only adds, multiplies and divides decimal           *)
(* literals, so its floats are modelled as exact rationals over             *)
(* arbitrary-precision integers (Big, Rat below).  The curve and the        *)
(* integrator go through np.log, so from np.array(...) on a rate is a       *)
(* fixed-point number with RateScale units per 1.0 and an amount of money   *)
(* a fixed-point number with Cents units per euro, both rounded down.       *)
(************************************************************************** *)
EXTENDS Integers, Sequences, FiniteSets, TLC

(************************************************************************** *)
(* Arbitrary-precision integers: sign and magnitude, the magnitude a        *)
(* little-endian sequence of limbs in 0..Base-1 without leading zeros.      *)
(************************************************************************** *)
Base == 10^4

RECURSIVE MagFromNat(_)
MagFromNat(n) == IF n = 0 THEN <<>> ELSE <<n % Base>> \o MagFromNat(n \div Base)

RECURSIVE MagTrim(_)
MagTrim(m) ==
  IF m = <<>> THEN <<>>
  ELSE IF m[Len(m)] = 0 THEN MagTrim(SubSeq(m, 1, Len(m) - 1)) ELSE m

RECURSIVE MagAddC(_, _, _)
MagAddC(a, b, c) ==
  IF a = <<>> /\ b = <<>> THEN (IF c = 0 THEN <<>> ELSE <<c>>)
  ELSE LET x == IF a = <<>> THEN 0 ELSE Head(a)
           y == IF b = <<>> THEN 0 ELSE Head(b)
           s == x + y + c
       IN <<s % Base>> \o MagAddC(IF a = <<>> THEN <<>> ELSE Tail(a),
                                  IF b = <<>> THEN <<>> ELSE Tail(b),
                                  s \div Base)

MagAdd(a, b) == MagAddC(a, b, 0)

\* -1, 0, 1 as a < b, a = b, a > b; compares from the most significant limb
RECURSIVE MagCmpAt(_, _, _)
MagCmpAt(a, b, i) ==
  IF i = 0 THEN 0
  ELSE IF a[i] < b[i] THEN -1
  ELSE IF a[i] > b[i] THEN 1
  ELSE MagCmpAt(a, b, i - 1)

MagCmp(a, b) ==
  IF Len(a) < Len(b) THEN -1
  ELSE IF Len(a) > Len(b) THEN 1
  ELSE MagCmpAt(a, b, Len(a))

\* a - b for a >= b, before trimming
RECURSIVE MagSubB(_, _, _)
MagSubB(a, b, br) ==
  IF a = <<>> THEN <<>>
  ELSE LET y == IF b = <<>> THEN 0 ELSE Head(b)
           d == Head(a) - y - br
       IN <<d % Base>> \o MagSubB(Tail(a),
                                  IF b = <<>> THEN <<>> ELSE Tail(b),
                                  IF d < 0 THEN 1 ELSE 0)

MagSub(a, b) == MagTrim(MagSubB(a, b, 0))

RECURSIVE MagMulSmall(_, _, _)
MagMulSmall(a, k, c) ==
  IF a = <<>> THEN (IF c = 0 THEN <<>> ELSE <<c>>)
  ELSE LET p == Head(a) * k + c
       IN <<p % Base>> \o MagMulSmall(Tail(a), k, p \div Base)

MagShift(m) == IF m = <<>> THEN <<>> ELSE <<0>> \o m

RECURSIVE MagMul(_, _)
MagMul(a, b) ==
  IF a = <<>> \/ b = <<>> THEN <<>>
  ELSE MagAdd(MagMulSmall(a, Head(b), 0), MagShift(MagMul(a, Tail(b))))

Big(neg, mag) == [neg |-> neg /\ mag # <<>>, mag |-> mag]

BigInt(n) == IF n < 0 THEN Big(TRUE, MagFromNat(-n)) ELSE Big(FALSE, MagFromNat(n))

BigNeg(a) == Big(~a.neg, a.mag)

BigAdd(a, b) ==
  IF a.neg = b.neg THEN Big(a.neg, MagAdd(a.mag, b.mag))
  ELSE IF MagCmp(a.mag, b.mag) >= 0 THEN Big(a.neg, MagSub(a.mag, b.mag))
  ELSE Big(b.neg, MagSub(b.mag, a.mag))

BigMul(a, b) == Big(a.neg # b.neg, MagMul(a.mag, b.mag))

BigCmp(a, b) ==
  IF a.neg /\ ~b.neg THEN -1
  ELSE IF ~a.neg /\ b.neg THEN 1
  ELSE IF a.neg THEN MagCmp(b.mag, a.mag)
  ELSE MagCmp(a.mag, b.mag)

BigSign(a) == IF a.mag = <<>> THEN 0 ELSE IF a.neg THEN -1 ELSE 1

(************************************************************************** *)
(* Exact rationals n/d with d > 0: the value of a Python float expression   *)
(* before rounding.                                                         *)
(************************************************************************** *)
\* common factors of Base are cancelled, nothing else is
RECURSIVE Rat(_, _)
Rat(n, d) ==
  IF n.mag # <<>> /\ Head(n.mag) = 0 /\ Head(d.mag) = 0
  THEN Rat(Big(n.neg, Tail(n.mag)), Big(d.neg, Tail(d.mag)))
  ELSE [n |-> n, d |-> d]

RatInt(k) == Rat(BigInt(k), BigInt(1))

\* the decimal literal k / 10^digits
RatDec(k, digits) == Rat(BigInt(k), BigInt(10^digits))

RatAdd(a, b) ==
  IF a.d = b.d THEN Rat(BigAdd(a.n, b.n), a.d)
  ELSE Rat(BigAdd(BigMul(a.n, b.d), BigMul(b.n, a.d)), BigMul(a.d, b.d))

RatNeg(a) == Rat(BigNeg(a.n), a.d)

RatSub(a, b) == RatAdd(a, RatNeg(b))

RatMul(a, b) == Rat(BigMul(a.n, b.n), BigMul(a.d, b.d))

\* a / b for b # 0 (Python raises ZeroDivisionError otherwise)
RatDiv(a, b) ==
  IF b.n.neg THEN Rat(BigNeg(BigMul(a.n, b.d)), BigMul(a.d, BigNeg(b.n)))
  ELSE Rat(BigMul(a.n, b.d), BigMul(a.d, b.n))

RatCmp(a, b) == BigCmp(BigMul(a.n, b.d), BigMul(b.n, a.d))

RatEq(a, b) == RatCmp(a, b) = 0

RatLeq(a, b) == RatCmp(a, b) <= 0

RatLt(a, b) == RatCmp(a, b) < 0

RatSign(a) == BigSign(a.n)

\* the largest integer q in lo..hi with q <= a, by bisection (lo <= a)
RECURSIVE RatFloorIn(_, _, _)
RatFloorIn(a, lo, hi) ==
  IF lo = hi THEN lo
  ELSE LET mid == lo + (hi - lo + 1) \div 2
       IN IF RatLeq(RatInt(mid), a) THEN RatFloorIn(a, mid, hi)
          ELSE RatFloorIn(a, lo, mid - 1)

MaxInt == 10^9

RatFloor(a) == RatFloorIn(a, -MaxInt, MaxInt)

\* a rounded to the nearest integer, halves up
RatRound(a) == RatFloor(RatAdd(a, Rat(BigInt(1), BigInt(2))))

(************************************************************************** *)
(* floor(a * b / c) for b >= 0 and 0 < c < 2^30 without overflowing the     *)
(* 32-bit integers of TLC: <<q, r>> with a * b = q * c + r.                 *)
(************************************************************************** *)
RECURSIVE MulDivQR(_, _, _)
MulDivQR(a, b, c) ==
  IF b = 0 THEN <<0, 0>>
  ELSE LET h == MulDivQR(a, b \div 2, c)
           q2 == (2 * h[1]) + ((2 * h[2]) \div c)
           r2 == (2 * h[2]) % c
       IN IF b % 2 = 0 THEN <<q2, r2>>
          ELSE <<q2 + (a \div c) + ((r2 + (a % c)) \div c), (r2 + (a % c)) % c>>

MulDiv(a, b, c) ==
  (CHOOSE qr \in {MulDivQR(x, y, z) : x \in {a}, y \in {b}, z \in {c}} : TRUE)[1]

Min(a, b) == IF a <= b THEN a ELSE b

Max(a, b) == IF a >= b THEN a ELSE b

None == <<>>

Some(v) == <<v>>

(************************************************************************** *)
(* global_tax_calculator(basic_income, overhead, income_cap_factor,         *)
(* progression_strength).  basic_income is an integer, overhead and         *)
(* progression_strength are rationals, income_cap_factor is None or         *)
(* Some(integer).                                                           *)
(************************************************************************** *)
population == RatMul(RatInt(823), RatInt(10^7))

world_gdp == RatMul(RatInt(978), RatMul(RatInt(10^6), RatInt(10^5)))

share_90_99 == RatDec(314, 3)

share_99_999 == RatDec(118, 3)

share_top001 == RatDec(86, 3)

top10_share_without_top001 == RatAdd(share_90_99, share_99_999)

top10_share == RatAdd(RatAdd(share_90_99, share_99_999), share_top001)

base_multipliers == <<RatDec(35, 2), RatDec(15, 1), RatDec(27, 1)>>

weights == <<share_90_99, share_99_999, share_top001>>

scaled_multipliers_sign_flipped(progression_strength) ==
  [i \in 1..3 |->
     RatSub(RatInt(1),
            RatDiv(RatMul(RatSub(base_multipliers[i], RatInt(1)), progression_strength),
                   RatInt(3)))]

scaled_multipliers(progression_strength) ==
  [i \in 1..3 |->
     RatAdd(RatInt(1),
            RatDiv(RatMul(RatSub(base_multipliers[i], RatInt(1)), progression_strength),
                   RatInt(3)))]

weighted_avg_unnormalised(progression_strength) ==
  LET m == scaled_multipliers(progression_strength)
  IN RatAdd(RatAdd(RatMul(weights[1], m[1]), RatMul(weights[2], m[2])),
            RatMul(weights[3], m[3]))

weighted_avg(progression_strength) ==
  LET m == scaled_multipliers(progression_strength)
  IN RatDiv(RatAdd(RatAdd(RatMul(weights[1], m[1]), RatMul(weights[2], m[2])),
                   RatMul(weights[3], m[3])),
            top10_share)

global_tax_calculator(basic_income, overhead, income_cap_factor, progression_strength) ==
  LET ubi_yearly == RatMul(RatInt(basic_income * 12), population)
      total_needed == RatMul(ubi_yearly, RatAdd(RatInt(1), overhead))
      required_share_gdp == RatDiv(total_needed, world_gdp)
      avg_required_on_top10 == RatDiv(required_share_gdp, top10_share)
      m == scaled_multipliers(progression_strength)
      scale_factor == RatDiv(avg_required_on_top10, weighted_avg(progression_strength))
      cap_yearly == RatInt(basic_income * income_cap_factor[1] * 12)
      avg_top001_income == RatDiv(RatMul(world_gdp, share_top001),
                                  RatMul(population, RatDec(1, 3)))
      excess_per_person == RatSub(avg_top001_income, cap_yearly)
      cap_tax_revenue ==
        IF income_cap_factor # None /\ RatLt(cap_yearly, avg_top001_income)
        THEN RatMul(excess_per_person, RatMul(population, RatDec(1, 3)))
        ELSE RatInt(0)
  IN [ubi_yearly |-> ubi_yearly,
      total_needed |-> total_needed,
      required_share_gdp |-> required_share_gdp,
      avg_required_on_top10 |-> avg_required_on_top10,
      bracket_rates |-> [b \in {"90-99%", "99-99.9%", "99.9-100%"} |->
                           IF b = "90-99%" THEN RatMul(m[1], scale_factor)
                           ELSE IF b = "99-99.9%" THEN RatMul(m[2], scale_factor)
                           ELSE RatMul(m[3], scale_factor)],
      cap_tax_revenue |-> cap_tax_revenue,
      cap_monthly |-> IF income_cap_factor # None /\ income_cap_factor[1] # 0
                      THEN Some(basic_income * income_cap_factor[1])
                      ELSE None]

(************************************************************************** *)
(* Fixed-point numbers of the curve and the integrator.                     *)
(************************************************************************** *)
\* units per 1.0 of a marginal rate (and per 1% of a percentage)
RateScale == 10000

\* units per euro of an amount of money
Cents == 100

ToFixed(r) == RatFloor(RatMul(r, RatInt(RateScale)))

(************************************************************************** *)
(* np.log on integers n >= 1, in units of 1/4096: n = 2^e * (1 + t) gives   *)
(* e * ln 2 + ln(1 + t), ln(1 + t) read from a 16-interval table of         *)
(* round(4096 * ln(1 + i/16)) and interpolated linearly.  It is             *)
(* non-decreasing, 0 at 1 and strictly increasing across table entries.     *)
(************************************************************************** *)
LnTable == <<0, 248, 482, 704, 914, 1114, 1304, 1486, 1661,
             1828, 1989, 2143, 2292, 2436, 2575, 2709, 2839>>

RECURSIVE Log2Floor(_)
Log2Floor(n) == IF n < 2 THEN 0 ELSE 1 + Log2Floor(n \div 2)

np_log(n) ==
  LET e == Log2Floor(n)
      t == IF e >= 10 THEN (n - 2^e) \div 2^(e - 10) ELSE (n - 2^e) * 2^(10 - e)
      i == t \div 64
  IN (e * LnTable[17]) + LnTable[i + 1]
       + (((LnTable[i + 2] - LnTable[i + 1]) * (t % 64)) \div 64)

\* np.log(max(p/q, 1)) for the rational income p/q, q >= 1
log_income(p, q) == IF p <= q THEN 0 ELSE np_log(p) - np_log(q)

(************************************************************************** *)
(* np.interp(x, xp, fp) for increasing xp: the boundary value outside       *)
(* [xp[1], xp[Len(xp)]], the chord through the two neighbours inside.       *)
(************************************************************************** *)
RECURSIVE np_interp_from(_, _, _, _)
np_interp_from_swapped(x, xp, fp, i) ==
  IF x < xp[i + 1]
  THEN fp[i] + MulDiv(fp[i] - fp[i + 1], x - xp[i], xp[i + 1] - xp[i])
  ELSE np_interp_from(x, xp, fp, i + 1)

np_interp_from(x, xp, fp, i) ==
  IF x < xp[i + 1]
  THEN fp[i] + MulDiv(fp[i + 1] - fp[i], x - xp[i], xp[i + 1] - xp[i])
  ELSE np_interp_from(x, xp, fp, i + 1)

np_interp(x, xp, fp) ==
  IF x <= xp[1] THEN fp[1]
  ELSE IF x >= xp[Len(xp)] THEN fp[Len(fp)]
  ELSE np_interp_from(x, xp, fp, 1)

(************************************************************************** *)
(* create_tax_function(bracket_rates, basic_income, income_cap_factor):     *)
(* the closure of tax_curve, i.e. the values it captures.                   *)
(************************************************************************** *)
x_points == <<0, 15000, 55000, 200000>>

create_tax_function(bracket_rates, basic_income, income_cap_factor) ==
  [x_points |-> x_points,
   y_points |-> <<0, ToFixed(bracket_rates["90-99%"]),
                     ToFixed(bracket_rates["99-99.9%"]),
                     ToFixed(bracket_rates["99.9-100%"])>>,
   income_cap_factor |-> income_cap_factor,
   cap_yearly |-> IF income_cap_factor # None
                  THEN Some(basic_income * income_cap_factor[1] * 12)
                  ELSE None]

tax_curve_at_strict(c, p, q) ==
  IF c.income_cap_factor # None /\ p > c.cap_yearly[1] * q
  THEN RateScale
  ELSE LET log_x == [i \in 1..Len(c.x_points) |-> np_log(Max(c.x_points[i], 1))]
       IN np_interp(log_income(p, q), log_x, c.y_points)

\* tax_curve(annual_income) of the closure c at annual_income = p/q
tax_curve_at(c, p, q) ==
  IF c.income_cap_factor # None /\ p >= c.cap_yearly[1] * q
  THEN RateScale
  ELSE LET log_x == [i \in 1..Len(c.x_points) |-> np_log(Max(c.x_points[i], 1))]
       IN np_interp(log_income(p, q), log_x, c.y_points)

(************************************************************************** *)
(* calculate_personal_outcome(monthly_income, basic_income, tax_curve,      *)
(* income_cap_factor).  Money is in Cents; tax_rate and diff_pct are in     *)
(* RateScale units per percent.                                             *)
(************************************************************************** *)
\* number of sample points of the quadrature (10000 in the source)
steps == 9

\* np.linspace(0, taxable_income, steps) as numerators over steps - 1
increments(taxable_income) == [k \in 1..steps |-> (k - 1) * taxable_income]

\* np.sum(step_sizes * marginal_rates) from sample k on, in Cents
RECURSIVE quadrature_from(_, _, _)
quadrature_from(c, inc, k) ==
  IF k > steps THEN 0
  ELSE LET step_size == IF k = 1 THEN inc[1] - 0 ELSE inc[k] - inc[k - 1]
           marginal_rate == tax_curve_at(c, inc[k], steps - 1)
       IN MulDiv(marginal_rate, step_size * Cents, (steps - 1) * RateScale)
            + quadrature_from(c, inc, k + 1)

quadrature(c, taxable_income) == quadrature_from(c, increments(taxable_income), 1)

\* lines 79-83: the part of the income the curve is integrated over
taxable_income_of(yearly_income, basic_income, income_cap_factor) ==
  IF income_cap_factor # None
  THEN Min(yearly_income, basic_income * income_cap_factor[1] * 12)
  ELSE yearly_income

surcharge_whenever_capped(yearly_income, basic_income, income_cap_factor) ==
  IF income_cap_factor # None
  THEN (yearly_income - (basic_income * income_cap_factor[1] * 12)) * Cents
  ELSE 0

surcharge_missing(yearly_income, basic_income, income_cap_factor) == 0

\* lines 93-94: 100% of the income above the cap, in Cents
surcharge(yearly_income, basic_income, income_cap_factor) ==
  IF income_cap_factor # None
       /\ yearly_income > basic_income * income_cap_factor[1] * 12
  THEN (yearly_income - (basic_income * income_cap_factor[1] * 12)) * Cents
  ELSE 0

after_tax_income_unclamped(yearly_income, tax_amount, basic_income, income_cap_factor) ==
  (yearly_income * Cents) - tax_amount + (basic_income * 12 * Cents)

after_tax_income_without_basic_income(yearly_income, tax_amount, basic_income, income_cap_factor) ==
  LET uncapped == (yearly_income * Cents) - tax_amount
  IN IF income_cap_factor # None
     THEN Min(uncapped,
              ((basic_income * income_cap_factor[1] * 12) + (basic_income * 12)) * Cents)
     ELSE uncapped

\* lines 96-100: the net yearly income and its hard cap, in Cents
after_tax_income(yearly_income, tax_amount, basic_income, income_cap_factor) ==
  LET uncapped == (yearly_income * Cents) - tax_amount + (basic_income * 12 * Cents)
  IN IF income_cap_factor # None
     THEN Min(uncapped,
              ((basic_income * income_cap_factor[1] * 12) + (basic_income * 12)) * Cents)
     ELSE uncapped

calculate_personal_outcome(monthly_income, basic_income, c, income_cap_factor) ==
  LET yearly_income == monthly_income * 12
      tax_amount ==
        quadrature(c, taxable_income_of(yearly_income, basic_income, income_cap_factor))
          + surcharge(yearly_income, basic_income, income_cap_factor)
      after_tax == after_tax_income(yearly_income, tax_amount, basic_income,
                                    income_cap_factor)
  IN [tax_rate |-> IF yearly_income > 0
                   THEN MulDiv(tax_amount, 100 * RateScale, yearly_income * Cents)
                   ELSE 0,
      tax_amount |-> tax_amount \div 12,
      after_tax_income_monthly |-> after_tax \div 12,
      diff_eur |-> (after_tax - (yearly_income * Cents)) \div 12,
      diff_pct |-> IF yearly_income > 0
                   THEN MulDiv(after_tax - (yearly_income * Cents),
                               100 * RateScale, yearly_income * Cents)
                   ELSE 0]

(************************************************************************** *)
(* The script: widget values, and the values the script computes from       *)
(* them on every run.                                                       *)
(************************************************************************** *)
VARIABLES basic_income, overhead, income_cap_factor, progression_strength,
          monthly_income, result, tax_curve, personal

vars == <<basic_income, overhead, income_cap_factor, progression_strength,
          monthly_income, result, tax_curve, personal>>

\* slider positions explored (the sliders allow 0..200, 0..50, 1..3000,
\* 1.0..10.0 and 0..100000)
BasicIncomes == {0, 30, 200}

OverheadPercents == {10, 50}

CapFactors == {1, 100, 3000}

ProgressionTenths == {10, 30, 50}

MonthlyIncomes == {0, 100, 1000, 3000, 20000}

\* one run of the script body with the given widget values
Rerun(b, o, c, p, m) ==
  /\ basic_income' = b
  /\ overhead' = o
  /\ income_cap_factor' = c
  /\ progression_strength' = p
  /\ monthly_income' = m
  /\ result' = global_tax_calculator(b, o, c, p)
  /\ tax_curve' = create_tax_function(result'.bracket_rates, b, c)
  /\ personal' = calculate_personal_outcome(m, b, tax_curve', c)

Init ==
  /\ basic_income = 30
  /\ overhead = RatDec(10, 2)
  /\ income_cap_factor = None
  /\ progression_strength = RatDec(30, 1)
  /\ monthly_income = 3000
  /\ result = global_tax_calculator(basic_income, overhead, income_cap_factor,
                                    progression_strength)
  /\ tax_curve = create_tax_function(result.bracket_rates, basic_income,
                                     income_cap_factor)
  /\ personal = calculate_personal_outcome(monthly_income, basic_income, tax_curve,
                                           income_cap_factor)

SetBasicIncome ==
  \E b \in BasicIncomes :
    /\ b # basic_income
    /\ Rerun(b, overhead, income_cap_factor, progression_strength, monthly_income)

SetOverhead ==
  \E o \in OverheadPercents :
    /\ RatDec(o, 2) # overhead
    /\ Rerun(basic_income, RatDec(o, 2), income_cap_factor, progression_strength,
             monthly_income)

\* the checkbox; the factor slider appears at its default 100 when it is ticked
ToggleCap ==
  \E c \in {IF income_cap_factor = None THEN Some(100) ELSE None} :
    Rerun(basic_income, overhead, c, progression_strength, monthly_income)

SetCapFactor ==
  \E f \in CapFactors :
    /\ income_cap_factor # None
    /\ income_cap_factor # Some(f)
    /\ Rerun(basic_income, overhead, Some(f), progression_strength, monthly_income)

SetProgression ==
  \E p \in ProgressionTenths :
    /\ RatDec(p, 1) # progression_strength
    /\ Rerun(basic_income, overhead, income_cap_factor, RatDec(p, 1), monthly_income)

SetMonthlyIncome ==
  \E m \in MonthlyIncomes :
    /\ m # monthly_income
    /\ Rerun(basic_income, overhead, income_cap_factor, progression_strength, m)

Next ==
  \/ SetBasicIncome
  \/ SetOverhead
  \/ ToggleCap
  \/ SetCapFactor
  \/ SetProgression
  \/ SetMonthlyIncome

Spec == Init /\ [][Next]_vars

(************************************************************************** *)
(* The core functions called directly: create_tax_function on any           *)
(* bracket-rate set and calculate_personal_outcome on the curve it          *)
(* returns.                                                                 *)
(************************************************************************** *)
BracketRates(r1, r2, r3) ==
  [b \in {"90-99%", "99-99.9%", "99.9-100%"} |->
     IF b = "90-99%" THEN r1 ELSE IF b = "99-99.9%" THEN r2 ELSE r3]

\* bracket-rate sets in percent: zero, increasing, equal, negative first
\* (mildly and strongly), decreasing, above 100%
RateSets == {<<0, 0, 0>>, <<10, 30, 50>>, <<30, 30, 30>>, <<-20, 10, 30>>,
             <<-300, 10, 30>>, <<50, 20, 10>>, <<150, 200, 250>>}

RatesOf(t) == BracketRates(RatDec(t[1], 2), RatDec(t[2], 2), RatDec(t[3], 2))

FnInit ==
  /\ basic_income \in BasicIncomes
  /\ overhead = RatDec(10, 2)
  /\ income_cap_factor \in {None} \cup {Some(f) : f \in CapFactors}
  /\ progression_strength = RatDec(30, 1)
  /\ monthly_income \in MonthlyIncomes
  /\ \E t \in RateSets :
       result = [global_tax_calculator(basic_income, overhead, income_cap_factor,
                                       progression_strength)
                   EXCEPT !.bracket_rates = RatesOf(t)]
  /\ tax_curve = create_tax_function(result.bracket_rates, basic_income,
                                     income_cap_factor)
  /\ personal = calculate_personal_outcome(monthly_income, basic_income, tax_curve,
                                           income_cap_factor)

\* BuildTaxCurve on another rate set, then the outcome on the new curve
FnBuild ==
  \E t \in RateSets :
    /\ RatesOf(t) # result.bracket_rates
    /\ result' = [result EXCEPT !.bracket_rates = RatesOf(t)]
    /\ tax_curve' = create_tax_function(result'.bracket_rates, basic_income,
                                        income_cap_factor)
    /\ personal' = calculate_personal_outcome(monthly_income, basic_income,
                                              tax_curve', income_cap_factor)
    /\ UNCHANGED <<basic_income, overhead, income_cap_factor, progression_strength,
                   monthly_income>>

\* EvaluatePersonalOutcome for another income on the same curve
FnEvaluate ==
  \E m \in MonthlyIncomes :
    /\ m # monthly_income
    /\ monthly_income' = m
    /\ personal' = calculate_personal_outcome(m, basic_income, tax_curve,
                                              income_cap_factor)
    /\ UNCHANGED <<basic_income, overhead, income_cap_factor, progression_strength,
                   result, tax_curve>>

FnNext == FnBuild \/ FnEvaluate

SpecFn == FnInit /\ [][FnNext]_vars

(************************************************************************** *)
(* Properties.                                                              *)
(************************************************************************** *)
YearlyIncome == monthly_income * 12

\* basic_income * income_cap_factor * 12 when a cap is configured
CapYearly == basic_income * income_cap_factor[1] * 12

Rate(b) == result.bracket_rates[b]

\* annual incomes at which the curve is probed
CurveIncomes == {0, 1, 2, 1000, 12000, 15000, 20000, 55000, 100000, 200000, 300000}

\* monthly incomes at which the integrator is probed
ProbeIncomes == {0, 100, 1000, 3000, 5000, 20000, 100000}

TaxAmount(m) ==
  calculate_personal_outcome(m, basic_income, tax_curve, income_cap_factor).tax_amount

AfterTax(m) ==
  calculate_personal_outcome(m, basic_income, tax_curve, income_cap_factor)
    .after_tax_income_monthly

(* C1: the share-weighted average of the three bracket rates the solver     *)
(* returns, (0.314*r1 + 0.118*r2 + 0.086*r3) / 0.518, equals the returned   *)
(* avg_required_on_top10.                                                   *)
C1_WeightedAverageIsTarget ==
  RatEq(RatDiv(RatAdd(RatAdd(RatMul(RatDec(314, 3), Rate("90-99%")),
                             RatMul(RatDec(118, 3), Rate("99-99.9%"))),
                      RatMul(RatDec(86, 3), Rate("99.9-100%"))),
               RatDec(518, 3)),
        result.avg_required_on_top10)

\* the solver has run with a cap, a positive target and a non-default strength
C1_Witness ==
  /\ income_cap_factor # None
  /\ basic_income = 200
  /\ progression_strength = RatDec(50, 1)
  /\ RatSign(result.avg_required_on_top10) > 0
  /\ RatSign(Rate("90-99%")) < 0
  /\ C1_WeightedAverageIsTarget

DefaultSolverInput ==
  /\ basic_income = 30
  /\ overhead = RatDec(10, 2)
  /\ income_cap_factor = None
  /\ progression_strength = RatDec(30, 1)

SolverScenario(avg4) ==
  /\ RatRound(RatDiv(result.ubi_yearly, RatInt(10^8))) = 29628
  /\ RatRound(RatDiv(result.total_needed, RatInt(10^8))) = 32591
  /\ RatRound(RatMul(result.required_share_gdp, RatInt(10^4))) = 333
  /\ RatRound(RatMul(result.avg_required_on_top10, RatInt(10^4))) = avg4

(* C9 as stated: for basic_income 30, overhead 0.10, no cap and strength    *)
(* 3.0 the solver returns ubi_yearly 2.9628e12, total_needed 3.2591e12,     *)
(* required_share_gdp 0.0333 and avg_required_on_top10 0.0633, each to the  *)
(* digits shown.                                                            *)
C9_ScenarioAsStated == DefaultSolverInput => SolverScenario(633)

(* C9 amended: the same scenario, with avg_required_on_top10 0.0643.        *)
C9_ScenarioAmended == DefaultSolverInput => SolverScenario(643)

C9_Witness == DefaultSolverInput /\ SolverScenario(643) /\ monthly_income = 1000

Monotone(f(_), incomes) ==
  \A a, b \in incomes : a <= b => f(a) <= f(b)

(* C3 as stated: without a cap, on the curve built from the solver's rates, *)
(* tax_amount is non-decreasing in income.                                  *)
C3_TaxMonotoneAsStated ==
  income_cap_factor = None => Monotone(TaxAmount, ProbeIncomes)

(* C3 amended: without a cap, on the curve built from the solver's rates,   *)
(* tax_amount is non-decreasing in income whenever the returned rates are   *)
(* non-negative.                                                            *)
C3_TaxMonotoneAmended ==
  (income_cap_factor = None /\ RatSign(Rate("90-99%")) >= 0)
    => Monotone(TaxAmount, ProbeIncomes)

C3_Witness ==
  /\ income_cap_factor = None
  /\ RatSign(Rate("90-99%")) > 0
  /\ monthly_income = 3000
  /\ TaxAmount(1000) < personal.tax_amount
  /\ personal.tax_amount < TaxAmount(20000)

(* C4: income below 15000 per year is untaxed: below 15000 (and below the   *)
(* cap) the curve gives rate 0 and the outcome has tax_amount 0.            *)
C4_Below15000Untaxed ==
  (YearlyIncome < 15000 /\ (income_cap_factor = None \/ YearlyIncome < CapYearly))
    => /\ tax_curve_at(tax_curve, YearlyIncome, 1) = 0
       /\ personal.tax_amount = 0

RatesNonDecreasing ==
  /\ RatLeq(Rate("90-99%"), Rate("99-99.9%"))
  /\ RatLeq(Rate("99-99.9%"), Rate("99.9-100%"))

CurveMonotoneBelowCap ==
  \A a, b \in CurveIncomes :
    (a <= b /\ (income_cap_factor = None \/ b < CapYearly))
      => tax_curve_at(tax_curve, a, 1) <= tax_curve_at(tax_curve, b, 1)

(* C5 as stated: for bracket rates r1 <= r2 <= r3 the curve is              *)
(* non-decreasing in income below the cap.                                  *)
C5_CurveMonotoneAsStated == RatesNonDecreasing => CurveMonotoneBelowCap

(* C5 amended: for bracket rates 0 <= r1 <= r2 <= r3 the curve is           *)
(* non-decreasing in income below the cap.                                  *)
C5_CurveMonotoneAmended ==
  (RatSign(Rate("90-99%")) >= 0 /\ RatesNonDecreasing) => CurveMonotoneBelowCap

C5_Witness ==
  /\ RatSign(Rate("90-99%")) > 0
  /\ RatLt(Rate("90-99%"), Rate("99-99.9%"))
  /\ RatLt(Rate("99-99.9%"), Rate("99.9-100%"))
  /\ income_cap_factor # None
  /\ CapYearly > 200000
  /\ 0 < tax_curve_at(tax_curve, 1000, 1)
  /\ tax_curve_at(tax_curve, 1000, 1) < tax_curve_at(tax_curve, 15000, 1)
  /\ tax_curve_at(tax_curve, 15000, 1) < tax_curve_at(tax_curve, 100000, 1)
  /\ tax_curve_at(tax_curve, 100000, 1) < tax_curve_at(tax_curve, 300000, 1)

(* C6: with a cap, the curve returns exactly 1.0 at every income at or      *)
(* above cap_yearly, whatever the bracket rates, also when cap_yearly is    *)
(* below the 15000 anchor or 0.                                             *)
C6_FullRateFromCap ==
  income_cap_factor # None =>
    /\ \A x \in CurveIncomes \cup {CapYearly, CapYearly + 1, YearlyIncome} :
         x >= CapYearly => tax_curve_at(tax_curve, x, 1) = RateScale
    /\ \A k \in 1..steps :
         k * YearlyIncome >= CapYearly * (steps - 1)
           => tax_curve_at(tax_curve, k * YearlyIncome, steps - 1) = RateScale

\* a cap below the first anchor, on a curve whose rates are not 1.0
C6_Witness ==
  /\ income_cap_factor # None
  /\ CapYearly > 0
  /\ CapYearly < 15000
  /\ tax_curve.y_points[4] # RateScale
  /\ tax_curve_at(tax_curve, CapYearly - 1, 1) < 0
  /\ tax_curve_at(tax_curve, CapYearly, 1) = RateScale

(* C7: for monthly_income 0 the outcome has tax_rate 0, tax_amount 0,       *)
(* diff_pct 0 and after_tax_income_monthly equal to basic_income, for any   *)
(* curve and with or without a cap.                                         *)
C7_ZeroIncome ==
  monthly_income = 0 =>
    /\ personal.tax_rate = 0
    /\ personal.tax_amount = 0
    /\ personal.diff_pct = 0
    /\ personal.after_tax_income_monthly = basic_income * Cents

C7_Witness ==
  /\ monthly_income = 0
  /\ basic_income > 0
  /\ income_cap_factor # None
  /\ tax_curve.y_points[2] < 0
  /\ personal.after_tax_income_monthly = basic_income * Cents

(* C2: with a cap, after_tax_income_monthly <= cap_yearly/12 + basic_income *)
(* for every income and every curve.                                        *)
C2_CapEnforced ==
  income_cap_factor # None =>
    /\ 12 * personal.after_tax_income_monthly
         <= (CapYearly + (12 * basic_income)) * Cents
    /\ \A m \in ProbeIncomes :
         12 * AfterTax(m) <= (CapYearly + (12 * basic_income)) * Cents

\* above the cap on a curve whose integral up to the cap is negative
C2_Witness ==
  /\ income_cap_factor # None
  /\ YearlyIncome > CapYearly
  /\ quadrature(tax_curve, CapYearly) < 0
  /\ personal.after_tax_income_monthly
       = ((CapYearly + (12 * basic_income)) * Cents) \div 12

(* C8: with a cap, the surcharge yearly_income - cap_yearly is added to the *)
(* quadrature sum over [0, min(yearly_income, cap_yearly)] exactly when     *)
(* yearly_income > cap_yearly; at yearly_income = cap_yearly tax_amount is  *)
(* the quadrature sum over [0, cap_yearly] alone.                           *)
C8_SurchargeOnlyAboveCap ==
  income_cap_factor # None =>
    /\ YearlyIncome > CapYearly =>
         personal.tax_amount
           = (quadrature(tax_curve, CapYearly)
                + ((YearlyIncome - CapYearly) * Cents)) \div 12
    /\ YearlyIncome = CapYearly =>
         personal.tax_amount = quadrature(tax_curve, CapYearly) \div 12
    /\ YearlyIncome < CapYearly =>
         personal.tax_amount = quadrature(tax_curve, YearlyIncome) \div 12

\* basic_income 30, factor 100, monthly_income 3000: exactly at the cap
C8_Witness ==
  /\ basic_income = 30
  /\ income_cap_factor = Some(100)
  /\ monthly_income = 3000
  /\ YearlyIncome = CapYearly
  /\ personal.tax_amount = quadrature(tax_curve, 36000) \div 12
  /\ personal.tax_amount > 0

(* C10: with a cap, every income at or above the cap gets the same          *)
(* after_tax_income_monthly, min(cap_yearly - S, cap_yearly) +              *)
(* basic_income*12 per year, S the quadrature sum over [0, cap_yearly].     *)
C10_NetIncomeConstantAboveCap ==
  income_cap_factor # None =>
    LET S == quadrature(tax_curve, CapYearly)
        net == (Min((CapYearly * Cents) - S, CapYearly * Cents)
                  + (basic_income * 12 * Cents)) \div 12
    IN /\ YearlyIncome >= CapYearly => personal.after_tax_income_monthly = net
       /\ \A m \in ProbeIncomes : m * 12 >= CapYearly => AfterTax(m) = net

\* above a positive cap, with a positive integral below it
C10_Witness ==
  /\ income_cap_factor # None
  /\ CapYearly > 0
  /\ YearlyIncome > CapYearly
  /\ quadrature(tax_curve, CapYearly) > 0
  /\ \E m \in ProbeIncomes : m # monthly_income /\ m * 12 > CapYearly
  /\ personal.after_tax_income_monthly = AfterTax(100000)

====
